---- MODULE Spec2Model ----
(***************************************************************************)
(* check_copied_files.py: for every file of a source directory create a    *)
(* checksum file next to it when there is none, optionally re-check the    *)
(* source file against it (--force-check) and optionally check the file of *)
(* the same relative path in a destination directory (--destination).      *)
(*                                                                         *)
(* A file system maps paths to contents.  A path is <<root, name>>, a name *)
(* and a content are sequences of one-character strings.  One run of the   *)
(* script is a sequential process; its system calls are the steps.         *)
(***************************************************************************)
EXTENDS Integers, Sequences, FiniteSets, TLC

\* ------------------------------------------------------------- bounds ----
MaxRuns == 2        \* runs of the script over the same tree
MaxLen  == 1        \* longest data file, in bytes

Runs == 1..MaxRuns

\* ------------------------------------------------------ names and paths ----
Bytes == {"x", "y"}

RECURSIVE SeqsUpTo(_, _)
SeqsUpTo(S, n) ==
    IF n = 0 THEN {<<>>}
    ELSE LET shorter == SeqsUpTo(S, n - 1)
         IN  shorter \cup {Append(s, b) : s \in {t \in shorter : Len(t) = n - 1}, b \in S}

Contents == SeqsUpTo(Bytes, MaxLen)

NoFile == <<"ENOENT">>          \* the path does not exist
None   == "None"                \* argparse default of --destination

Extensions == {<<"c">>}         \* values of --extension in the model
Filters    == {<<"*">>, <<"a">>}   \* values of --filter in the model

\* f'{file_path}.{checksum_extension}' on the name part of a path
artifact_name(name, extension) == name \o <<".">> \o extension

\* f'{file_path}.{args.extension}'
artifact_path(file_path, extension) ==
    <<file_path[1], artifact_name(file_path[2], extension)>>

\* str.endswith
endswith(s, suffix) ==
    /\ Len(suffix) <= Len(s)
    /\ SubSeq(s, Len(s) - Len(suffix) + 1, Len(s)) = suffix

\* os.path.join(dirpath, filename)
join(root, name) == <<root, name>>

\* os.path.relpath(file_path, args.source) for a file under args.source
relpath(file_path, root) == file_path[2]

DataNames == {<<"a">>, <<"b">>}
AllNames  ==
    LET arts == {artifact_name(n, e) : n \in DataNames, e \in Extensions}
    IN  DataNames \cup arts \cup {artifact_name(n, e) : n \in arts, e \in Extensions}
Roots     == {"src", "dst"}
AllPaths  == Roots \X AllNames

\* ------------------------------------------------------------- hashlib ----
HexDigits == <<"0", "1", "2", "3", "4", "5", "6", "7",
               "8", "9", "a", "b", "c", "d", "e", "f">>

TypeError == <<"TypeError">>    \* hexdigest() missing required argument 'length'

\* the algorithms of hashlib.algorithms_guaranteed the model draws from
Algorithms == {"md5", "sha1", "shake_128"}

\* the bytes as a number, one-to-one
RECURSIVE Val(_)
Val(bytes) ==
    IF bytes = <<>> THEN 1
    ELSE 2 * Val(SubSeq(bytes, 1, Len(bytes) - 1))
         + (IF bytes[Len(bytes)] = "x" THEN 0 ELSE 1)

RECURSIVE Hex(_, _)
Hex(n, digits) ==
    IF digits = 0 THEN <<>>
    ELSE Append(Hex(n \div 16, digits - 1), HexDigits[(n % 16) + 1])

\* getattr(hashlib, algorithm)(bytes).hexdigest(): a fixed-length lowercase
\* hexadecimal string, one-to-one on the contents of the model; the shake
\* algorithms need a length and raise TypeError without one
hexdigest(algorithm, bytes) ==
    CASE algorithm = "md5"  -> Hex((Val(bytes) * 7 + 3) % 256, 2)
      [] algorithm = "sha1" -> Hex((Val(bytes) * 11 + 5) % 4096, 3)
      [] OTHER              -> TypeError

\* cf.read() of a file opened with 'r': universal newlines
RECURSIVE read_text(_)
read_text(raw) ==
    IF raw = <<>> THEN <<>>
    ELSE IF raw[1] = "\r"
         THEN IF Len(raw) >= 2 /\ raw[2] = "\n"
              THEN <<"\n">> \o read_text(SubSeq(raw, 3, Len(raw)))
              ELSE <<"\n">> \o read_text(Tail(raw))
         ELSE <<raw[1]>> \o read_text(Tail(raw))

\* ------------------------------------------------------------- state ----
VARIABLES
    args,           \* the parsed command line
    fs,             \* the file system: path -> content or NoFile
    pc,             \* per run: the statement the run is at
    source_files,   \* per run: the list built by the walk
    idx,            \* per run: position of the loop in source_files
    readable_hash,  \* per run: local of generate_checksum
    out,            \* per run: the lines printed so far
    exit_code,      \* per run: exit status, -1 while running
    raised,         \* per run: the exception that ended the run, or "none"
    fsStart,        \* per run: the file system when the run started
    hadArt,         \* per run: entries whose checksum file existed at line 129
    noArt,          \* per run: entries whose checksum file was absent at line 129
    created         \* per run: checksum files opened for writing by the run

vars == <<args, fs, pc, source_files, idx, readable_hash, out, exit_code,
          raised, fsStart, hadArt, noArt, created>>

\* the content with one byte changed (or one byte added to the empty file)
Flip(c) ==
    IF c = <<>> THEN <<"x">>
    ELSE [c EXCEPT ![Len(c)] = IF @ = "x" THEN "y" ELSE "x"]

upper(text) ==
    [i \in DOMAIN text |->
        CASE text[i] = "a" -> "A" [] text[i] = "b" -> "B" [] text[i] = "c" -> "C"
          [] text[i] = "d" -> "D" [] text[i] = "e" -> "E" [] text[i] = "f" -> "F"
          [] OTHER -> text[i]]

\* the checksum files the tree may hold before the first run, for a file of
\* content c: the right digest, a stale one, the digest of another algorithm,
\* the digest followed by a line end, the digest in upper case
StoredTexts(c) ==
    {hexdigest("md5", c), hexdigest("md5", Flip(c)), hexdigest("sha1", c),
     hexdigest("md5", c) \o <<"\n">>, hexdigest("md5", c) \o <<"\r">>,
     upper(hexdigest("md5", c))}

\* the trees and command lines the runs start from: two data files a and b
\* in the source directory, with or without checksum files; the destination
\* directory, when given, holds a copy of a (faithful or not) with a checksum
\* file of its own, and possibly a copy of b
InitWith(filters) ==
    /\ args \in [source : {"src"}, destination : {None, "dst"},
                 filter : filters, extension : Extensions,
                 algorithm : Algorithms, force_check : BOOLEAN]
    /\ \E ca \in Contents, tb \in {NoFile, hexdigest("md5", <<"x">>)},
          db \in {NoFile, <<"x">>} :
       \E ta \in StoredTexts(ca) \cup {NoFile}, da \in {NoFile, ca, Flip(ca)} :
         /\ args.destination = None => (da = NoFile /\ db = NoFile)
         /\ fs = [p \in AllPaths |->
                    CASE p = <<"src", <<"a">>>> -> ca
                      [] p = <<"src", <<"b">>>> -> <<"x">>
                      [] p = <<"src", artifact_name(<<"a">>, args.extension)>> -> ta
                      [] p = <<"src", artifact_name(<<"b">>, args.extension)>> -> tb
                      [] p = <<"dst", <<"a">>>> -> da
                      [] p = <<"dst", <<"b">>>> -> db
                      [] p = <<"dst", artifact_name(<<"a">>, args.extension)>> ->
                            IF da = NoFile THEN NoFile ELSE hexdigest("md5", da)
                      [] OTHER -> NoFile]
    /\ pc = [r \in Runs |-> "init"]
    /\ source_files = [r \in Runs |-> <<>>]
    /\ idx = [r \in Runs |-> 0]
    /\ readable_hash = [r \in Runs |-> <<>>]
    /\ out = [r \in Runs |-> <<>>]
    /\ exit_code = [r \in Runs |-> -1]
    /\ raised = [r \in Runs |-> "none"]
    /\ fsStart = [r \in Runs |-> fs]
    /\ hadArt = [r \in Runs |-> {}]
    /\ noArt = [r \in Runs |-> {}]
    /\ created = [r \in Runs |-> {}]

\* the runs with the default --filter
Init == InitWith({<<"*">>})

\* the runs with any of the filters
InitFilter == InitWith(Filters)

\* ----------------------------------------------------------- helpers ----
\* a test that never finds the file
exists_unchecked(path) == FALSE

\* os.path.exists
exists(path) == fs[path] # NoFile

\* a test for the bare extension instead of the suffix
is_checksum_file_exact(filename) == filename = args.extension

\* line 120: the test that keeps checksum files out of source_files
is_checksum_file(filename) == endswith(filename, args.extension)

\* line 126
checksum_file_path_of(file_path) == artifact_path(file_path, args.extension)

\* the path taken under the source directory instead of the destination
destination_file_path_source(relative_path) == join(args.source, relative_path)

\* lines 148-149
destination_file_path(relative_path) == join(args.destination, relative_path)

\* the check made on every run, whatever the flag
force_always == TRUE

\* line 138
force_enabled == args.force_check

RECURSIVE rstrip(_)
rstrip(text) ==
    IF text # <<>> /\ text[Len(text)] \in {"\n", "\r", " "}
    THEN rstrip(SubSeq(text, 1, Len(text) - 1))
    ELSE text

\* a comparison that forgives trailing white space in the checksum file
validate_checksum_strip(f, file_path, checksum_file_path, algorithm) ==
    LET hash == hexdigest(algorithm, f[file_path])
    IN  IF f[file_path] = NoFile
        THEN [raised |-> "OSError", value |-> FALSE]
        ELSE IF hash = TypeError
        THEN [raised |-> "TypeError", value |-> FALSE]
        ELSE IF f[checksum_file_path] = NoFile
        THEN [raised |-> "OSError", value |-> FALSE]
        ELSE [raised |-> "none",
              value |-> (rstrip(read_text(f[checksum_file_path])) = hash)]

\* validate_checksum: the result of the call on the file system f, or the
\* exception it raises
validate_checksum(f, file_path, checksum_file_path, algorithm) ==
    LET hash == hexdigest(algorithm, f[file_path])
    IN  IF f[file_path] = NoFile
        THEN [raised |-> "OSError", value |-> FALSE]
        ELSE IF hash = TypeError
        THEN [raised |-> "TypeError", value |-> FALSE]
        ELSE IF f[checksum_file_path] = NoFile
        THEN [raised |-> "OSError", value |-> FALSE]
        ELSE [raised |-> "none",
              value |-> (read_text(f[checksum_file_path]) = hash)]

\* a mismatch that ends the run after its warning
Outcome_strict(r) == IF r.raised # "none" \/ ~r.value THEN "aborted" ELSE "continue"

\* lines 140-143 and 152-158: what a call of validate_checksum does to the
\* run; nothing catches an exception, a False result only prints
Outcome(r) == IF r.raised # "none" THEN "aborted" ELSE "continue"

file_path_of(r) == source_files[r][idx[r]]

Finished(r) == pc[r] \in {"done", "aborted"}

\* an uncaught exception: traceback, exit status 1
Raise(r, exc) ==
    /\ pc' = [pc EXCEPT ![r] = "aborted"]
    /\ raised' = [raised EXCEPT ![r] = exc]
    /\ exit_code' = [exit_code EXCEPT ![r] = 1]

\* the end of one loop iteration
Advance(r) ==
    IF idx[r] < Len(source_files[r])
    THEN /\ idx' = [idx EXCEPT ![r] = idx[r] + 1]
         /\ pc' = [pc EXCEPT ![r] = "exists"]
         /\ UNCHANGED exit_code
    ELSE /\ pc' = [pc EXCEPT ![r] = "done"]
         /\ exit_code' = [exit_code EXCEPT ![r] = 0]
         /\ UNCHANGED idx

Orderings(S) ==
    {s \in [1..Cardinality(S) -> S] : \A i, j \in DOMAIN s : s[i] = s[j] => i = j}

\* ----------------------------------------------------------- actions ----
\* lines 117-121: os.walk over args.source, in directory order
Walk(r) ==
    /\ pc[r] = "init"
    /\ LET filenames  == {n \in AllNames : fs[join(args.source, n)] # NoFile}
           qualifying == {n \in filenames : ~is_checksum_file(n)}
       IN  /\ \E order \in Orderings(qualifying) :
                source_files' = [source_files EXCEPT ![r] =
                    [i \in 1..Cardinality(qualifying) |-> join(args.source, order[i])]]
           /\ IF qualifying = {}
              THEN /\ pc' = [pc EXCEPT ![r] = "done"]
                   /\ exit_code' = [exit_code EXCEPT ![r] = 0]
                   /\ UNCHANGED idx
              ELSE /\ pc' = [pc EXCEPT ![r] = "exists"]
                   /\ idx' = [idx EXCEPT ![r] = 1]
                   /\ UNCHANGED exit_code
    /\ fsStart' = [fsStart EXCEPT ![r] = fs]
    /\ UNCHANGED <<args, fs, readable_hash, out, raised, hadArt, noArt, created>>

\* lines 125-131: the test for the checksum file, and the notice
ExistsStep(r) ==
    /\ pc[r] = "exists"
    /\ LET file_path == file_path_of(r)
           present   == fs[checksum_file_path_of(file_path)] # NoFile
       IN  /\ hadArt' = [hadArt EXCEPT ![r] = IF present THEN @ \cup {file_path} ELSE @]
           /\ noArt' = [noArt EXCEPT ![r] = IF present THEN @ ELSE @ \cup {file_path}]
           /\ IF ~exists(checksum_file_path_of(file_path))
              THEN /\ out' = [out EXCEPT ![r] = Append(@, <<"creating", file_path>>)]
                   /\ pc' = [pc EXCEPT ![r] = "gen_read"]
              ELSE /\ pc' = [pc EXCEPT ![r] = "force"]
                   /\ UNCHANGED out
    /\ UNCHANGED <<args, fs, source_files, idx, readable_hash, exit_code,
                   raised, fsStart, created>>

\* lines 31-35: generate_checksum opens and reads the file, computes the hash
GenRead(r) ==
    /\ pc[r] = "gen_read"
    /\ \E ok \in BOOLEAN :
         LET hash == hexdigest(args.algorithm, fs[file_path_of(r)])
         IN  IF ~ok \/ fs[file_path_of(r)] = NoFile
             THEN Raise(r, "OSError") /\ UNCHANGED readable_hash
             ELSE IF hash = TypeError
             THEN Raise(r, "TypeError") /\ UNCHANGED readable_hash
             ELSE /\ readable_hash' = [readable_hash EXCEPT ![r] = hash]
                  /\ pc' = [pc EXCEPT ![r] = "gen_open"]
                  /\ UNCHANGED <<raised, exit_code>>
    /\ UNCHANGED <<args, fs, source_files, idx, out, fsStart, hadArt, noArt, created>>

\* lines 39-40: open(checksum_file_path, 'w') creates or truncates the file
GenOpen(r) ==
    /\ pc[r] = "gen_open"
    /\ \E ok \in BOOLEAN :
         IF ~ok
         THEN Raise(r, "OSError") /\ UNCHANGED <<fs, created>>
         ELSE /\ fs' = [fs EXCEPT ![checksum_file_path_of(file_path_of(r))] = <<>>]
              /\ created' = [created EXCEPT ![r] =
                                @ \cup {checksum_file_path_of(file_path_of(r))}]
              /\ pc' = [pc EXCEPT ![r] = "gen_write"]
              /\ UNCHANGED <<raised, exit_code>>
    /\ UNCHANGED <<args, source_files, idx, readable_hash, out, fsStart, hadArt, noArt>>

\* lines 41-42: cf.write(readable_hash), the file is closed, the path returned
GenWrite(r) ==
    /\ pc[r] = "gen_write"
    /\ fs' = [fs EXCEPT ![checksum_file_path_of(file_path_of(r))] = readable_hash[r]]
    /\ readable_hash' = [readable_hash EXCEPT ![r] = <<>>]
    /\ pc' = [pc EXCEPT ![r] = "force"]
    /\ UNCHANGED <<args, source_files, idx, out, exit_code, raised, fsStart,
                   hadArt, noArt, created>>

\* the lines a call of validate_checksum prints: the announcement before the
\* call, the verdict after it when it returned
Printed(o, announce, path, res) ==
    IF res.raised = "none"
    THEN Append(Append(o, <<announce, path>>),
                <<IF res.value THEN "match" ELSE "mismatch", path>>)
    ELSE Append(o, <<announce, path>>)

\* lines 138-143: the check of the source file against its checksum file
ForceCheck(r) ==
    /\ pc[r] = "force"
    /\ IF ~force_enabled
       THEN /\ pc' = [pc EXCEPT ![r] = "dest"]
            /\ UNCHANGED <<out, raised, exit_code>>
       ELSE \E ok \in BOOLEAN :
            LET file_path == file_path_of(r)
                res == IF ok THEN validate_checksum(fs, file_path,
                                      checksum_file_path_of(file_path), args.algorithm)
                       ELSE [raised |-> "OSError", value |-> FALSE]
            IN  /\ out' = [out EXCEPT ![r] = Printed(@, "checking_source", file_path, res)]
                /\ IF Outcome(res) = "aborted"
                   THEN Raise(r, IF res.raised = "none" THEN "SystemExit" ELSE res.raised)
                   ELSE /\ pc' = [pc EXCEPT ![r] = "dest"]
                        /\ UNCHANGED <<raised, exit_code>>
    /\ UNCHANGED <<args, fs, source_files, idx, readable_hash, fsStart,
                   hadArt, noArt, created>>

\* lines 147-158: the check of the destination file against the checksum
\* file of the source file; then the next entry
DestCheck(r) ==
    /\ pc[r] = "dest"
    /\ LET file_path == file_path_of(r)
           destination_path == destination_file_path(relpath(file_path, args.source))
       IN  IF args.destination = None \/ ~exists(destination_path)
           THEN Advance(r) /\ UNCHANGED <<out, raised>>
           ELSE \E ok \in BOOLEAN :
                LET res == IF ok THEN validate_checksum(fs, destination_path,
                                          checksum_file_path_of(file_path), args.algorithm)
                           ELSE [raised |-> "OSError", value |-> FALSE]
                IN  /\ out' = [out EXCEPT ![r] = Printed(@, "checking", destination_path, res)]
                    /\ IF Outcome(res) = "aborted"
                       THEN /\ Raise(r, IF res.raised = "none" THEN "SystemExit"
                                        ELSE res.raised)
                            /\ UNCHANGED idx
                       ELSE Advance(r) /\ UNCHANGED raised
    /\ UNCHANGED <<args, fs, source_files, readable_hash, fsStart,
                   hadArt, noArt, created>>

Step(r) ==
    \/ ExistsStep(r)
    \/ GenRead(r)
    \/ GenOpen(r)
    \/ GenWrite(r)
    \/ ForceCheck(r)
    \/ DestCheck(r)

\* runs one after the other: a run starts when the one before it has ended
MayStart(r) == IF r = 1 THEN TRUE ELSE Finished(r - 1)

Next ==
    \/ \E r \in Runs : MayStart(r) /\ Walk(r)
    \/ \E r \in Runs : Step(r)

Spec == Init /\ [][Next]_vars

\* two runs of the script started on the same tree at the same time
NextConc ==
    \/ \E r \in Runs : Walk(r)
    \/ \E r \in Runs : Step(r)

InitConc ==
    /\ Init
    /\ args.destination = None

\* the same runs, with a --filter given
SpecFilter == InitFilter /\ [][Next]_vars

SpecConc == InitConc /\ [][NextConc]_vars

\* ============================================================ claims ====
In(o, line) == \E i \in DOMAIN o : o[i] = line

Before(o, first, second) ==
    \A i, j \in DOMAIN o : (o[i] = first /\ o[j] = second) => i < j

\* entry i of run r is beyond its create-if-absent step
PastCreate(r, i) ==
    \/ i < idx[r]
    \/ pc[r] = "done"
    \/ i = idx[r] /\ pc[r] \in {"force", "dest"}

\* entry i of run r is beyond its source check
PastForce(r, i) ==
    \/ i < idx[r]
    \/ pc[r] = "done"
    \/ i = idx[r] /\ pc[r] = "dest"

\* entry i of run r is beyond all its steps
PastDest(r, i) == i < idx[r] \/ pc[r] = "done"

SrcArtifact(file_path) == <<"src", file_path[2] \o <<".">> \o args.extension>>

Mirror(file_path) == <<"dst", file_path[2]>>

Mismatches(o) == Cardinality({i \in DOMAIN o : o[i][1] = "mismatch"})

\* fnmatch.fnmatch(name, pattern) with the wildcards * and ?
RECURSIVE fnmatch(_, _)
fnmatch(name, pattern) ==
    IF pattern = <<>> THEN name = <<>>
    ELSE IF pattern[1] = "*"
         THEN \E k \in 0..Len(name) :
                fnmatch(SubSeq(name, k + 1, Len(name)), Tail(pattern))
         ELSE /\ name # <<>>
              /\ pattern[1] \in {"?", name[1]}
              /\ fnmatch(Tail(name), Tail(pattern))

\* C1: a checksum file that exists when its source file is processed has,
\* at every later moment of the run, the content it had when the run began,
\* whatever --force-check and --destination are and whether or not the
\* stored digest matches the file.
C1_NeverOverwrites ==
    \A r \in Runs : \A f \in hadArt[r] :
        fs[SrcArtifact(f)] = fsStart[r][SrcArtifact(f)]

\* a finished run with both flags that met a checksum file holding a digest
\* that does not match its file
C1_Witness ==
    \E r \in Runs : \E f \in hadArt[r] :
        /\ pc[r] = "done"
        /\ args.force_check /\ args.destination # None
        /\ hexdigest(args.algorithm, fs[f]) # TypeError
        /\ fs[SrcArtifact(f)] # hexdigest(args.algorithm, fs[f])
        /\ In(out[r], <<"mismatch", f>>)

\* C2: an I/O failure on one entry does not abort the run: a run that has
\* ended (other than by the TypeError of an algorithm) has taken every entry
\* of source_files through the loop.
C2_FailureDoesNotAbort ==
    \A r \in Runs :
        (Finished(r) /\ raised[r] # "TypeError") =>
            \A i \in DOMAIN source_files[r] :
                source_files[r][i] \in hadArt[r] \cup noArt[r]

\* C3: a file is processed only if its name matches --filter.
C3_FilterRestricts ==
    \A r \in Runs : \A f \in hadArt[r] \cup noArt[r] :
        fnmatch(f[2], args.filter)

\* C4: no entry of source_files, and so no file that is hashed as a data
\* file, has a name that ends with the extension; no checksum file is made
\* for a file whose name ends with the extension; this holds for checksum
\* files that were there before the run and for those an earlier run made.
C4_Exclusion ==
    \A r \in Runs :
        /\ \A i \in DOMAIN source_files[r] :
              ~endswith(source_files[r][i][2], args.extension)
        /\ \A f \in hadArt[r] \cup noArt[r] : ~endswith(f[2], args.extension)
        /\ \A path \in created[r] :
              \A n \in AllNames :
                  endswith(n, args.extension) =>
                      path[2] # n \o <<".">> \o args.extension
        /\ \A n \in AllNames :
              (endswith(n, args.extension)
                  /\ n \o <<".">> \o args.extension \in AllNames) =>
                  fs[<<"src", n \o <<".">> \o args.extension>>] = NoFile

\* a second run has walked a tree that holds a checksum file made by the
\* first run and one that was there before it
C4_Witness ==
    /\ MaxRuns >= 2
    /\ pc[2] = "done"
    /\ created[1] # {}
    /\ hadArt[1] # {}
    /\ Len(source_files[2]) = 2

DataPaths == Roots \X DataNames

\* C5: validate_checksum returns True exactly when the digest of the bytes
\* of the file equals the whole text of the checksum file, character for
\* character; after a True result any other content of the file gives False;
\* the steps that call it leave every file as it was.
C5_ValidateInv ==
    \A f \in DataPaths : \A a \in {<<root, SrcArtifact(f)[2]>> : root \in Roots} :
        (fs[f] # NoFile /\ fs[a] # NoFile
            /\ hexdigest(args.algorithm, fs[f]) # TypeError) =>
          LET v == validate_checksum(fs, f, a, args.algorithm)
          IN  /\ v.raised = "none"
              /\ v.value <=> (hexdigest(args.algorithm, fs[f]) = fs[a])
              /\ v.value =>
                   \A c \in Contents \ {fs[f]} :
                       ~validate_checksum([fs EXCEPT ![f] = c], f, a,
                                          args.algorithm).value

C5_ReadOnly ==
    (\E r \in Runs : pc[r] \in {"force", "dest"} /\ out'[r] # out[r]) => fs' = fs

C5_Validate == []C5_ValidateInv /\ [][C5_ReadOnly]_vars

\* a run has checked a against a checksum file that holds the right digest
\* followed by a carriage return (a mismatch) and b against the right digest
C5_Witness ==
    \E r \in Runs :
        /\ fs[<<"src", <<"a", ".">> \o args.extension>>]
             = hexdigest(args.algorithm, fs[<<"src", <<"a">>>>]) \o <<"\r">>
        /\ In(out[r], <<"mismatch", <<"src", <<"a">>>>>>)
        /\ In(out[r], <<"match", <<"src", <<"b">>>>>>)

\* C6: with a destination, for every entry that went through its steps, the
\* file of the same relative path under the destination is checked exactly
\* when it exists, against the checksum file of the source file: match when
\* its bytes hash to the stored digest, mismatch otherwise; nothing is
\* printed about it when it does not exist.
C6_MirrorCheck ==
    \A r \in Runs : \A i \in DOMAIN source_files[r] :
        LET f == source_files[r][i]
            d == Mirror(f)
            same == hexdigest(args.algorithm, fs[d]) = fs[SrcArtifact(f)]
        IN  /\ (args.destination = None \/ fs[d] = NoFile) =>
                  \A k \in DOMAIN out[r] : out[r][k][2] # d
            /\ (PastDest(r, i) /\ args.destination # None /\ fs[d] # NoFile) =>
                  /\ In(out[r], <<"checking", d>>)
                  /\ In(out[r], <<"match", d>>) <=> same
                  /\ In(out[r], <<"mismatch", d>>) <=> ~same

\* a finished run reported a match for the copy of a although the checksum
\* file in the destination tree differs from the one in the source tree, a
\* mismatch or nothing for b
C6_Witness ==
    \E r \in Runs :
        /\ pc[r] = "done"
        /\ In(out[r], <<"match", <<"dst", <<"a">>>>>>)
        /\ fs[<<"dst", <<"a", ".">> \o args.extension>>]
             # fs[<<"src", <<"a", ".">> \o args.extension>>]
        /\ fs[<<"dst", <<"b">>>>] = NoFile

\* C7: the step that prints a mismatch warning goes on to the next step of
\* the entry or to the next entry, never to the end of the run; a run is
\* only ever ended early by an exception; a run that reaches its end exits
\* with status 0 however many warnings it printed.
C7_MismatchStep ==
    \A r \in Runs :
        (Len(out'[r]) > Len(out[r]) /\ out'[r][Len(out'[r])][1] = "mismatch") =>
            /\ raised'[r] = "none"
            /\ pc[r] = "force" => (pc'[r] = "dest" /\ idx'[r] = idx[r])
            /\ pc[r] = "dest" =>
                 IF idx[r] < Len(source_files[r])
                 THEN pc'[r] = "exists" /\ idx'[r] = idx[r] + 1
                 ELSE pc'[r] = "done" /\ exit_code'[r] = 0

C7_ExitInv ==
    \A r \in Runs :
        /\ pc[r] = "done" => exit_code[r] = 0
        /\ pc[r] = "aborted" => raised[r] \in {"OSError", "TypeError"}

C7_MismatchNeverAborts == []C7_ExitInv /\ [][C7_MismatchStep]_vars

\* a run ended normally after three mismatch warnings
C7_Witness ==
    \E r \in Runs :
        /\ pc[r] = "done" /\ exit_code[r] = 0
        /\ Mismatches(out[r]) >= 3

\* C8: an entry that had no checksum file when it was processed gets the
\* creation notice and, once the creation is over, a checksum file holding
\* the digest of its bytes under the selected algorithm (runs ended by an
\* I/O failure set aside).
C8_LazyCreation ==
    \A r \in Runs : \A f \in noArt[r] :
        raised[r] # "OSError" =>
            /\ In(out[r], <<"creating", f>>)
            /\ \/ f = file_path_of(r) /\ pc[r] \in {"gen_read", "gen_open", "gen_write"}
               \/ fs[SrcArtifact(f)] = hexdigest(args.algorithm, fs[f])

\* C9: with --force-check every entry is checked against its own checksum
\* file after the creation step and before the destination check: a match
\* when the checksum file was made in this run, a mismatch and an untouched
\* checksum file when it was there with a wrong digest; without the flag no
\* source file is checked.
C9_ForceCheck ==
    \A r \in Runs :
        /\ ~args.force_check =>
              \A k \in DOMAIN out[r] :
                  /\ out[r][k][1] # "checking_source"
                  /\ out[r][k][1] \in {"match", "mismatch"} => out[r][k][2][1] # "src"
        /\ args.force_check =>
              \A i \in DOMAIN source_files[r] :
                  LET f == source_files[r][i]
                      same == hexdigest(args.algorithm, fs[f]) = fs[SrcArtifact(f)]
                  IN  /\ Before(out[r], <<"creating", f>>, <<"checking_source", f>>)
                      /\ Before(out[r], <<"checking_source", f>>, <<"checking", Mirror(f)>>)
                      /\ In(out[r], <<"checking", Mirror(f)>>)
                            => In(out[r], <<"checking_source", f>>)
                      /\ PastForce(r, i) =>
                            /\ In(out[r], <<"checking_source", f>>)
                            /\ In(out[r], <<"match", f>>) <=> same
                            /\ In(out[r], <<"mismatch", f>>) <=> ~same
                            /\ SrcArtifact(f) \in created[r] => In(out[r], <<"match", f>>)
                            /\ f \in hadArt[r] =>
                                 fs[SrcArtifact(f)] = fsStart[r][SrcArtifact(f)]

\* a finished run with --force-check reported a match for a file whose
\* checksum file it made and a mismatch for one whose checksum file was there
C9_Witness ==
    \E r \in Runs : \E f \in noArt[r], g \in hadArt[r] :
        /\ pc[r] = "done"
        /\ args.force_check
        /\ In(out[r], <<"match", f>>)
        /\ In(out[r], <<"mismatch", g>>)

\* C10: two runs at work on the same tree never both open the same checksum
\* file for writing.
C10_NoConcurrentCreate ==
    \A r, q \in Runs : r # q => created[r] \cap created[q] = {}

====
